---------------------------- MODULE Spec2Model ----------------------------
(***************************************************************************)
(* Model of src/main.py: the /generate request pipeline                    *)
(*   call_hf_generate -> tts_save -> make_video ->                         *)
(*   upload_to_supabase_and_insert -> response.                            *)
(*                                                                         *)
(* Text is modelled as a sequence of chunks whose concatenation is the     *)
(* Python string.  The brace characters '{' and '}' are always chunks of   *)
(* their own, so a scan over chunks sees exactly the braces a scan over    *)
(* characters sees.  Durations are counted in quarter seconds, so that     *)
(* 0.5 s is 2 quarters.                                                    *)
(***************************************************************************)
EXTENDS Integers, Sequences, FiniteSets, TLC

\* ----------------------------------------------------------------- bounds
MaxProse == 1     \* longest prose prefix / suffix around the model's JSON
MaxQuiz  == 1     \* most quiz items in a generated payload
MaxAudio == 10    \* longest narration, in quarter seconds
MaxLen   == 2     \* largest length_seconds guideline, in seconds

\* ------------------------------------------------- Python / JSON values
Str(c)     == [type |-> "str", chunks |-> c]
Num        == [type |-> "num"]
Null       == [type |-> "null"]
List(e)    == [type |-> "list", elems |-> e]
Dict(m)    == [type |-> "dict", items |-> m]
Pair(k, v) == [k |-> <<k>>, v |-> v]
Unset      == [type |-> "unset"]

Range(s) == {s[i] : i \in 1..Len(s)}
Max(a, b) == IF a >= b THEN a ELSE b
Min(a, b) == IF a <= b THEN a ELSE b

\* Serialisation styles: compact JSON as a model may emit it, json.dumps
\* with its default separators, and Python's str()/repr() of a container.
JsonCompact == [q |-> "\"", comma |-> ",", colon |-> ":", null |-> "null"]
JsonPy      == [q |-> "\"", comma |-> ", ", colon |-> ": ", null |-> "null"]
PyRepr      == [q |-> "'", comma |-> ", ", colon |-> ": ", null |-> "None"]

RECURSIVE Ser(_, _), SerElems(_, _), SerItems(_, _)
Ser(v, st) ==
  CASE v.type = "str"  -> <<st.q>> \o v.chunks \o <<st.q>>
    [] v.type = "num"  -> <<"5">>
    [] v.type = "null" -> <<st.null>>
    [] v.type = "list" -> <<"[">> \o SerElems(v.elems, st) \o <<"]">>
    [] v.type = "dict" -> <<"{">> \o SerItems(v.items, st) \o <<"}">>
SerElems(es, st) ==
  IF Len(es) = 0 THEN <<>>
  ELSE Ser(Head(es), st) \o
       (IF Len(es) = 1 THEN <<>> ELSE <<st.comma>> \o SerElems(Tail(es), st))
SerItems(ms, st) ==
  IF Len(ms) = 0 THEN <<>>
  ELSE <<st.q>> \o Head(ms).k \o <<st.q, st.colon>> \o Ser(Head(ms).v, st) \o
       (IF Len(ms) = 1 THEN <<>> ELSE <<st.comma>> \o SerItems(Tail(ms), st))

\* str(x): a str is itself, anything else prints as its repr.
PyStr(v) == IF v.type = "str" THEN v.chunks ELSE Ser(v, PyRepr)

\* json.loads over chunks: a recursive-descent parser.  A result is
\* [ok, val, next]; next is the index after the parsed value.
Quote == "\""
IsComma(c) == c \in {",", ", "}
IsColon(c) == c \in {":", ": "}
ParseFail == [ok |-> FALSE, val |-> Unset, next |-> 0]
ParseOk(v, n) == [ok |-> TRUE, val |-> v, next |-> n]

ParseString(t, i) ==
  IF i > Len(t) \/ t[i] # Quote THEN ParseFail
  ELSE LET closing == {j \in (i+1)..Len(t) : t[j] = Quote}
       IN  IF closing = {} THEN ParseFail
           ELSE LET j == CHOOSE m \in closing : \A n \in closing : m <= n
                IN  ParseOk(Str(SubSeq(t, i+1, j-1)), j+1)

RECURSIVE ParseValue(_, _), ParseElements(_, _, _), ParseMembers(_, _, _)
ParseValue(t, i) ==
  IF i > Len(t) THEN ParseFail
  ELSE CASE t[i] = Quote  -> ParseString(t, i)
         [] t[i] = "5"    -> ParseOk(Num, i+1)
         [] t[i] = "null" -> ParseOk(Null, i+1)
         [] t[i] = "["    -> IF i+1 <= Len(t) /\ t[i+1] = "]"
                             THEN ParseOk(List(<<>>), i+2)
                             ELSE ParseElements(t, i+1, <<>>)
         [] t[i] = "{"    -> IF i+1 <= Len(t) /\ t[i+1] = "}"
                             THEN ParseOk(Dict(<<>>), i+2)
                             ELSE ParseMembers(t, i+1, <<>>)
         [] OTHER         -> ParseFail
ParseElements(t, i, acc) ==
  LET r == ParseValue(t, i)
  IN  IF ~r.ok \/ r.next > Len(t) THEN ParseFail
      ELSE IF IsComma(t[r.next])
           THEN ParseElements(t, r.next + 1, Append(acc, r.val))
      ELSE IF t[r.next] = "]"
           THEN ParseOk(List(Append(acc, r.val)), r.next + 1)
      ELSE ParseFail
ParseMembers(t, i, acc) ==
  LET s == ParseString(t, i)
  IN  IF ~s.ok \/ s.next > Len(t) \/ ~IsColon(t[s.next]) THEN ParseFail
      ELSE LET r == ParseValue(t, s.next + 1)
               m == Append(acc, [k |-> s.val.chunks, v |-> r.val])
           IN  IF ~r.ok \/ r.next > Len(t) THEN ParseFail
               ELSE IF IsComma(t[r.next])
                    THEN ParseMembers(t, r.next + 1, m)
               ELSE IF t[r.next] = "}"
                    THEN ParseOk(Dict(m), r.next + 1)
               ELSE ParseFail

\* json.loads(s) for a str s: the whole text must be one JSON value.
Loads(t) ==
  LET r == ParseValue(t, 1)
  IN  IF r.ok /\ r.next = Len(t) + 1 THEN r ELSE ParseFail

\* dict lookups and the `in` operator
HasKey(d, key) == \E i \in 1..Len(d.items) : d.items[i].k = <<key>>
Get(d, key) ==
  LET idx == {i \in 1..Len(d.items) : d.items[i].k = <<key>>}
  IN  d.items[CHOOSE i \in idx : \A j \in idx : j <= i].v
\* `key in data`: dict -> key lookup, list -> element equality,
\* str -> substring (a key is a substring of a concatenation of chunks
\* exactly when it is one of the chunks, for the chunks used here).
InSupported(val) == val.type \in {"dict", "list", "str"}
PyIn(key, val) ==
  CASE val.type = "dict" -> HasKey(val, key)
    [] val.type = "list" -> \E i \in 1..Len(val.elems) : val.elems[i] = Str(<<key>>)
    [] val.type = "str"  -> key \in Range(val.chunks)
    [] OTHER             -> FALSE

\* ------------------------------------------------ brace-depth extraction
\* text.find('{'), 1-based; 0 when absent (the code's -1).
Find(t, c) ==
  LET hits == {i \in 1..Len(t) : t[i] = c}
  IN  IF hits = {} THEN 0 ELSE CHOOSE i \in hits : \A j \in hits : i <= j

\* the for-loop of the scan: index of the '}' that brings depth to 0,
\* 0 when the loop ends without one (end is None).
RECURSIVE ScanEnd(_, _, _)
ScanEnd(t, i, depth) ==
  IF i > Len(t) THEN 0
  ELSE IF t[i] = "{" THEN ScanEnd(t, i + 1, depth + 1)
  ELSE IF t[i] = "}" THEN (IF depth - 1 = 0 THEN i ELSE ScanEnd(t, i + 1, depth - 1))
  ELSE ScanEnd(t, i + 1, depth)

\* The try/except of lines 78-103.  exc is "none", "HTTPException" (the
\* 502 raised at line 103) or "TypeError" (raised while formatting that
\* detail, when text cannot be sliced).
ExtractData(txt) ==
  IF txt.type # "str"
  THEN [json_text |-> <<>>, data |-> Unset,
        exc |-> IF txt.type = "list" THEN "HTTPException" ELSE "TypeError"]
  ELSE LET t     == txt.chunks
           start == Find(t, "{")
           end   == IF start = 0 THEN 0 ELSE ScanEnd(t, start, 0)
           cand  == IF end = 0 THEN <<>> ELSE SubSeq(t, start, end)
           first == IF end = 0 THEN ParseFail ELSE Loads(cand)
           whole == Loads(t)
       IN  IF first.ok THEN [json_text |-> cand, data |-> first.val, exc |-> "none"]
           ELSE IF whole.ok THEN [json_text |-> cand, data |-> whole.val, exc |-> "none"]
           ELSE [json_text |-> cand, data |-> Unset, exc |-> "HTTPException"]

\* Lines 105-107.  "TypeError": `in` applied to a value that is not a
\* container; "HTTPException": the 502 'missing keys'; "none": returned.
ValidateKeys(val) ==
  IF ~InSupported(val) THEN "TypeError"
  ELSE IF ~PyIn("script", val) \/ ~PyIn("title", val) \/ ~PyIn("quiz", val)
       THEN "HTTPException"
  ELSE "none"


\* ------------------------------------------------------ input domains
IntVal(n) == [type |-> "int", n |-> n]
ProseChunks == {"x", "{", "}"}
Prose == UNION {[1..n -> ProseChunks] : n \in 0..MaxProse}

TitleVals == {Str(<<"a">>), Str(<<"a", "}", "b">>)}
QuizItem ==
  Dict(<<Pair("question", Str(<<"q">>)),
         Pair("options", List(<<Str(<<"a">>), Str(<<"b">>), Str(<<"c">>), Str(<<"d">>)>>)),
         Pair("answer", Str(<<"b">>))>>)
QuizLists == {List([i \in 1..n |-> QuizItem]) : n \in 0..MaxQuiz}
QuizVals == QuizLists \cup {Num}
\* objects with any subset of the keys title, script, quiz
PayloadDicts ==
  {Dict(tp \o sp \o qp) :
     tp \in {<<>>} \cup {<<Pair("title", t)>> : t \in TitleVals},
     sp \in {<<>>, <<Pair("script", Str(<<"a">>))>>},
     qp \in {<<>>} \cup {<<Pair("quiz", q)>> : q \in QuizVals}}
\* JSON values that are not objects
OtherVals ==
  {Num, Null, Str(<<"a">>), Str(<<"title", "script", "quiz">>), List(<<>>),
   List(<<Str(<<"title">>), Str(<<"script">>), Str(<<"quiz">>)>>),
   List(<<Dict(<<Pair("title", Str(<<"a">>))>>)>>)}
Bodies == PayloadDicts \cup OtherVals
\* values of generated_text that are not a str
NonStrTexts == {Num, Null, List(<<>>)}
LengthValues == {Null} \cup {IntVal(n) : n \in 0..MaxLen}
AudioDurations == 0..MaxAudio

\* The inference response `out` in each shape the code distinguishes.
Wrap(shape, t) ==
  CASE shape = "list_generated_text" -> List(<<Dict(<<Pair("generated_text", t)>>)>>)
    [] shape = "list_text"           -> List(<<Dict(<<Pair("text", t)>>)>>)
    [] shape = "list_other"          -> List(<<t>>)
    [] shape = "dict_generated_text" -> Dict(<<Pair("generated_text", t)>>)
TextShapes == {"list_generated_text", "list_text", "list_other", "dict_generated_text"}

\* Lines 59-75: reduce `out` to the raw text.
Normalize(out) ==
  IF out.type = "list" /\ Len(out.elems) > 0
  THEN LET first == out.elems[1]
       IN  IF first.type = "dict"
           THEN IF HasKey(first, "generated_text") THEN Get(first, "generated_text")
                ELSE IF HasKey(first, "text") THEN Get(first, "text")
                ELSE Str(Ser(first, JsonPy))
           ELSE Str(PyStr(first))
  ELSE IF out.type = "dict" /\ HasKey(out, "generated_text")
       THEN Get(out, "generated_text")
  ELSE Str(PyStr(out))

\* Where the embedded JSON object truly lies in pre \o Ser(body) \o post,
\* and whether the text is prose around exactly one JSON object.
HasObject(p) ==
  \E i \in 1..Len(p) : \E j \in i..Len(p) :
     LET r == Loads(SubSeq(p, i, j)) IN r.ok /\ r.val.type = "dict"
NoEmbedded == [single |-> FALSE, first |-> 0, last |-> 0]
Embedded(pre, body, post) ==
  [single |-> body.type = "dict" /\ ~HasObject(pre) /\ ~HasObject(post),
   first  |-> Len(pre) + 1,
   last   |-> Len(pre) + Len(Ser(body, JsonCompact))]

\* ------------------------------------------------------------- state
VARIABLES
  pc,              \* position in generate()
  length_seconds,  \* req.length_seconds
  text,            \* call_hf_generate: raw model output
  embedded,        \* reference boundaries of the object embedded in text
  json_text,       \* call_hf_generate: candidate substring (<<>>: none)
  data,            \* call_hf_generate: parsed value
  hf_out,          \* generate: value returned by call_hf_generate
  audio_exists,    \* tmpdir/audio.mp3 exists
  audio_dur,       \* true duration of the narration, quarter seconds
  probe_res,       \* make_video: outcome of the ffprobe call
  final_dur,       \* make_video: final_dur, seconds
  clip_exists,     \* output_path + ".color.mp4" exists
  out_exists,      \* tmpdir/video.mp4 exists
  out_dur,         \* duration of tmpdir/video.mp4, quarter seconds
  primary_res,     \* make_video: outcome of the primary render
  fallback_res,    \* make_video: outcome of the fallback render
  remove_res,      \* make_video: outcome of os.remove(tmp_color)
  mv_exc,          \* make_video: exception in flight / raised
  mv_state,        \* make_video: "none", "running", "returned", "raised"
  upload_res,      \* outcome of storage upload
  public_res,      \* outcome of get_public_url
  signed_res,      \* outcome of the last create_signed_url
  insert_res,      \* outcome of the videos insert
  video_url,       \* upload_to_supabase_and_insert: video_url
  videos,          \* rows of the videos table
  calls,           \* external operations invoked so far, in order
  response         \* what /generate answered

hf_vars    == <<text, embedded, json_text, data, hf_out>>
video_vars == <<audio_exists, audio_dur, probe_res, final_dur, clip_exists,
                out_exists, out_dur, primary_res, fallback_res, remove_res, mv_exc,
                mv_state>>
pub_vars   == <<upload_res, public_res, signed_res, insert_res, video_url, videos>>
vars == <<pc, length_seconds, hf_vars, video_vars, pub_vars, calls, response>>

NoResponse == [status |-> 0, detail |-> "", ok |-> FALSE, video_url |-> "", meta |-> ""]
Error(status, detail) ==
  [status |-> status, detail |-> detail, ok |-> FALSE, video_url |-> "", meta |-> ""]
\* an HTTPException leaves generate() and the request is answered
Raise(status, detail) == pc' = "done" /\ response' = Error(status, detail)

Init ==
  /\ pc = "hf_request"
  /\ length_seconds \in LengthValues
  /\ text = Unset /\ embedded = NoEmbedded /\ json_text = <<>>
  /\ data = Unset /\ hf_out = Unset
  /\ audio_exists = FALSE /\ audio_dur = 0 /\ probe_res = "none"
  /\ final_dur = 0 /\ clip_exists = FALSE /\ out_exists = FALSE /\ out_dur = 0
  /\ primary_res = "none" /\ fallback_res = "none" /\ remove_res = "none"
  /\ mv_exc = "none" /\ mv_state = "none"
  /\ upload_res = "none" /\ public_res = "none" /\ signed_res = "none"
  /\ insert_res = "none" /\ video_url = "none" /\ videos = <<>>
  /\ calls = <<>>
  /\ response = NoResponse

\* ------------------------------------------- stage 1: call_hf_generate
\* Lines 50-75 (and generate's handlers, 234-239).
HFGotText(t, e) ==
  /\ text' = t /\ embedded' = e /\ pc' = "extract"
  /\ UNCHANGED <<json_text, data, hf_out, response>>
HFRequest ==
  /\ pc = "hf_request"
  /\ calls' = Append(calls, "hf")
  /\ UNCHANGED <<length_seconds, video_vars, pub_vars>>
  /\ \/ \* requests.post or resp.json() raises
        /\ Raise(500, "LLM generation failed") /\ UNCHANGED hf_vars
     \/ \* not resp.ok
        /\ Raise(502, "HuggingFace error") /\ UNCHANGED hf_vars
     \/ \* the model's JSON, possibly inside prose, as generated text
        \E pre \in Prose, body \in Bodies, post \in Prose, shape \in TextShapes :
          HFGotText(Normalize(Wrap(shape, Str(pre \o Ser(body, JsonCompact) \o post))),
                    Embedded(pre, body, post))
     \/ \* generated_text that is not a str
        \E v \in NonStrTexts :
          HFGotText(Normalize(Wrap("list_generated_text", v)), NoEmbedded)
     \/ \* a list whose first element is an object without generated_text / text
        \E d \in PayloadDicts :
          HFGotText(Normalize(List(<<d>>)), NoEmbedded)
     \/ \* any other response: str(out)
        \E o \in PayloadDicts \cup {Num, Null, List(<<>>)} :
          HFGotText(Normalize(o), NoEmbedded)

\* Lines 77-103.
ExtractJson ==
  /\ pc = "extract"
  /\ LET r == ExtractData(text)
     IN  /\ json_text' = r.json_text
         /\ data' = r.data
         /\ CASE r.exc = "none" -> pc' = "validate" /\ UNCHANGED response
              [] r.exc = "HTTPException" ->
                   Raise(502, "Could not parse JSON from model output")
              [] r.exc = "TypeError" -> Raise(500, "LLM generation failed")
  /\ UNCHANGED <<length_seconds, text, embedded, hf_out, video_vars, pub_vars, calls>>

\* Lines 104-107 and the return into generate (235).
Validate ==
  /\ pc = "validate"
  /\ LET exc == ValidateKeys(data)
     IN  CASE exc = "none" ->
                /\ hf_out' = data /\ pc' = "unpack" /\ UNCHANGED response
           [] exc = "HTTPException" ->
                /\ Raise(502, "Invalid output from model: missing keys")
                /\ UNCHANGED hf_out
           [] exc = "TypeError" ->
                /\ Raise(500, "LLM generation failed") /\ UNCHANGED hf_out
  /\ UNCHANGED <<length_seconds, text, embedded, json_text, data, video_vars,
                 pub_vars, calls>>

\* Lines 241-247: title, script, quiz are read from hf_out, then the
\* working directory is made.  All of it is outside every try block: a
\* value that is not a dict has no .get (AttributeError), and
\* tempfile.mkdtemp may raise (OSError); nobody handles either and the
\* framework answers 500.
Unpack ==
  /\ pc = "unpack"
  /\ IF hf_out.type = "dict"
     THEN /\ text' = Unset /\ embedded' = NoEmbedded /\ json_text' = <<>>
          /\ data' = Unset
          /\ \/ pc' = "tts" /\ UNCHANGED response
             \/ \* tempfile.mkdtemp raises
                Raise(500, "Internal Server Error")
     ELSE /\ Raise(500, "Internal Server Error")
          /\ UNCHANGED <<text, embedded, json_text, data>>
  /\ UNCHANGED <<length_seconds, hf_out, video_vars, pub_vars, calls>>

\* ------------------------------------------------- stage 2: tts_save
\* Lines 248-251 and 109-112.
TTS ==
  /\ pc = "tts"
  /\ calls' = Append(calls, "tts")
  /\ \/ /\ audio_exists' = TRUE
        /\ \E d \in AudioDurations : audio_dur' = d
        /\ pc' = "probe" /\ UNCHANGED response
     \/ /\ Raise(500, "TTS failed")
        /\ UNCHANGED <<audio_exists, audio_dur>>
  /\ UNCHANGED <<length_seconds, hf_vars, probe_res, final_dur, clip_exists,
                 out_exists, out_dur, primary_res, fallback_res, remove_res,
                 mv_exc, mv_state, pub_vars>>

\* ------------------------------------------------ stage 3: make_video
\* int(x) for x >= 0 given in quarters: truncation.
PyInt(q) == q \div 4
\* FinalDur without the + 0.5: the probed duration truncated, not rounded.
FinalDurTrunc(audio_q, duration) == Max(PyInt(audio_q), duration)
\* Line 134: max(int(audio_seconds + 0.5), duration); audio in quarters,
\* duration and result in seconds.
FinalDur(audio_q, duration) == Max(PyInt(audio_q + 2), duration)
\* "-shortest": the output ends with the shorter of the two streams.
Shortest(video_q, audio_q) == Min(video_q, audio_q)

\* Lines 125-134, entered from generate (253-256).  length_seconds = None
\* makes line 129/131/134 raise TypeError before any render is started.
Probe ==
  /\ pc = "probe"
  /\ calls' = Append(calls, "probe")
  /\ \E res \in {"ok", "empty", "raised"} :
       /\ probe_res' = res
       /\ IF length_seconds = Null
          THEN /\ mv_exc' = "TypeError" /\ mv_state' = "raised"
               /\ Raise(500, "Video creation failed")
               /\ UNCHANGED final_dur
          ELSE /\ final_dur' = FinalDur(IF res = "ok" THEN audio_dur
                                        ELSE 4 * length_seconds.n,
                                        length_seconds.n)
               /\ mv_state' = "running" /\ pc' = "render_color"
               /\ UNCHANGED <<mv_exc, response>>
  /\ UNCHANGED <<length_seconds, hf_vars, audio_exists, audio_dur, clip_exists,
                 out_exists, out_dur, primary_res, fallback_res, remove_res,
                 pub_vars>>

\* Lines 136-150: the background clip with the title drawn on it.
RenderColor ==
  /\ pc = "render_color"
  /\ calls' = Append(calls, "render_color")
  /\ \/ /\ clip_exists' = TRUE /\ pc' = "render_mux"
        /\ UNCHANGED <<primary_res, mv_exc>>
     \/ \* ffmpeg exits non-zero; it may leave a partial clip behind
        /\ primary_res' = "CalledProcessError" /\ pc' = "render_fallback"
        /\ clip_exists' \in BOOLEAN
        /\ UNCHANGED mv_exc
     \/ \* the process cannot be started: not a CalledProcessError
        /\ primary_res' = "OSError" /\ mv_exc' = "OSError" /\ pc' = "mv_finally"
        /\ UNCHANGED clip_exists
  /\ UNCHANGED <<length_seconds, hf_vars, audio_exists, audio_dur, probe_res,
                 final_dur, out_exists, out_dur, fallback_res, remove_res,
                 mv_state, pub_vars, response>>

\* Lines 151-162: mux the clip with the narration, -shortest.
RenderMux ==
  /\ pc = "render_mux"
  /\ calls' = Append(calls, "render_mux")
  /\ \/ /\ primary_res' = "ok" /\ pc' = "mv_finally"
        /\ out_exists' = TRUE
        /\ out_dur' = Shortest(4 * final_dur, audio_dur)
        /\ UNCHANGED mv_exc
     \/ /\ primary_res' = "CalledProcessError" /\ pc' = "render_fallback"
        /\ UNCHANGED <<out_exists, out_dur, mv_exc>>
     \/ /\ primary_res' = "OSError" /\ mv_exc' = "OSError" /\ pc' = "mv_finally"
        /\ UNCHANGED <<out_exists, out_dur>>
  /\ UNCHANGED <<length_seconds, hf_vars, audio_exists, audio_dur, probe_res,
                 final_dur, clip_exists, fallback_res, remove_res, mv_state,
                 pub_vars, response>>

\* Lines 163-179: one render without the text overlay.
RenderFallback ==
  /\ pc = "render_fallback"
  /\ calls' = Append(calls, "render_fallback")
  /\ pc' = "mv_finally"
  /\ \/ /\ fallback_res' = "ok"
        /\ out_exists' = TRUE
        /\ out_dur' = Shortest(4 * final_dur, audio_dur)
        /\ UNCHANGED mv_exc
     \/ /\ fallback_res' = "failed" /\ mv_exc' = "RuntimeError"
        /\ UNCHANGED <<out_exists, out_dur>>
  /\ UNCHANGED <<length_seconds, hf_vars, audio_exists, audio_dur, probe_res,
                 final_dur, clip_exists, primary_res, remove_res, mv_state,
                 pub_vars, response>>

\* Finally whose cleanup runs on the success path only (no `finally`).
FinallyOnSuccessOnly ==
  /\ pc = "mv_finally"
  /\ IF clip_exists /\ mv_exc = "none"
     THEN /\ calls' = Append(calls, "remove_clip")
          /\ \/ remove_res' = "ok" /\ clip_exists' = FALSE
             \/ remove_res' = "failed" /\ UNCHANGED clip_exists
     ELSE UNCHANGED <<calls, remove_res, clip_exists>>
  /\ IF mv_exc = "none"
     THEN mv_state' = "returned" /\ pc' = "upload" /\ UNCHANGED response
     ELSE mv_state' = "raised" /\ Raise(500, "Video creation failed")
  /\ UNCHANGED <<length_seconds, hf_vars, audio_exists, audio_dur, probe_res,
                 final_dur, out_exists, out_dur, primary_res, fallback_res,
                 mv_exc, pub_vars>>

\* Lines 180-185, then the return or the raise into generate (257-258).
Finally ==
  /\ pc = "mv_finally"
  /\ IF clip_exists
     THEN /\ calls' = Append(calls, "remove_clip")
          /\ \/ remove_res' = "ok" /\ clip_exists' = FALSE
             \/ \* os.remove raises; `except: pass`
                remove_res' = "failed" /\ UNCHANGED clip_exists
     ELSE UNCHANGED <<calls, remove_res, clip_exists>>
  /\ IF mv_exc = "none"
     THEN mv_state' = "returned" /\ pc' = "upload" /\ UNCHANGED response
     ELSE mv_state' = "raised" /\ Raise(500, "Video creation failed")
  /\ UNCHANGED <<length_seconds, hf_vars, audio_exists, audio_dur, probe_res,
                 final_dur, out_exists, out_dur, primary_res, fallback_res,
                 mv_exc, pub_vars>>

\* ------------------------- stage 4: upload_to_supabase_and_insert
PublishFailed == Raise(500, "Upload/DB insert failed")

\* Upload that does not look at the error field of the response.
UploadNoCheck ==
  /\ pc = "upload"
  /\ calls' = Append(calls, "upload")
  /\ \/ upload_res' = "ok" /\ pc' = "public_url" /\ UNCHANGED response
     \/ upload_res' = "error" /\ pc' = "public_url" /\ UNCHANGED response
     \/ upload_res' = "raised" /\ PublishFailed
  /\ UNCHANGED <<length_seconds, hf_vars, video_vars, public_res, signed_res,
                 insert_res, video_url, videos>>

\* Lines 189-194, entered from generate (260-264).
Upload ==
  /\ pc = "upload"
  /\ calls' = Append(calls, "upload")
  /\ \/ upload_res' = "ok" /\ pc' = "public_url" /\ UNCHANGED response
     \/ \* res.get("error") is set: RuntimeError("Supabase upload error")
        upload_res' = "error" /\ PublishFailed
     \/ \* open() or the upload call raises
        upload_res' = "raised" /\ PublishFailed
  /\ UNCHANGED <<length_seconds, hf_vars, video_vars, public_res, signed_res,
                 insert_res, video_url, videos>>

\* PublicUrl that asks for a signed URL even when the public one is usable.
PublicUrlAlwaysSigned ==
  /\ pc = "public_url"
  /\ calls' = Append(calls, "public_url")
  /\ \/ public_res' = "url" /\ video_url' = "public" /\ pc' = "signed_url_try"
     \/ public_res' = "none" /\ pc' = "signed_url_try" /\ UNCHANGED video_url
     \/ public_res' = "raised" /\ pc' = "signed_url_except" /\ UNCHANGED video_url
  /\ UNCHANGED <<length_seconds, hf_vars, video_vars, upload_res, signed_res,
                 insert_res, videos, response>>

\* Lines 197-200: the public URL first.
PublicUrl ==
  /\ pc = "public_url"
  /\ calls' = Append(calls, "public_url")
  /\ \/ public_res' = "url" /\ video_url' = "public" /\ pc' = "insert"
     \/ public_res' = "none" /\ pc' = "signed_url_try" /\ UNCHANGED video_url
     \/ public_res' = "raised" /\ pc' = "signed_url_except" /\ UNCHANGED video_url
  /\ UNCHANGED <<length_seconds, hf_vars, video_vars, upload_res, signed_res,
                 insert_res, videos, response>>

\* Lines 201-203: inside the try, when the public URL is unusable.  An
\* exception here is caught by the except of line 204.
SignedUrlTry ==
  /\ pc = "signed_url_try"
  /\ calls' = Append(calls, "signed_url")
  /\ \/ signed_res' = "url" /\ video_url' = "signed" /\ pc' = "insert"
     \/ signed_res' = "none" /\ video_url' = "none" /\ pc' = "insert"
     \/ signed_res' = "raised" /\ pc' = "signed_url_except" /\ UNCHANGED video_url
  /\ UNCHANGED <<length_seconds, hf_vars, video_vars, upload_res, public_res,
                 insert_res, videos, response>>

\* Lines 204-207: the except handler.  An exception here leaves the
\* function.
SignedUrlExcept ==
  /\ pc = "signed_url_except"
  /\ calls' = Append(calls, "signed_url")
  /\ \/ /\ signed_res' = "url" /\ video_url' = "signed" /\ pc' = "insert"
        /\ UNCHANGED response
     \/ /\ signed_res' = "none" /\ video_url' = "none" /\ pc' = "insert"
        /\ UNCHANGED response
     \/ /\ signed_res' = "raised" /\ PublishFailed /\ UNCHANGED video_url
  /\ UNCHANGED <<length_seconds, hf_vars, video_vars, upload_res, public_res,
                 insert_res, videos>>

\* Lines 211-214: the first quiz item, if any.  "raises": quiz is not a
\* sequence, or its first item is a truthy value without .get.
Truthy(v) ==
  CASE v.type = "null" -> FALSE
    [] v.type = "str"  -> Len(v.chunks) > 0
    [] v.type = "list" -> Len(v.elems) > 0
    [] v.type = "dict" -> Len(v.items) > 0
    [] OTHER           -> TRUE
PrimaryRaises(quiz) ==
  CASE quiz.type = "list" -> /\ Len(quiz.elems) > 0 /\ Truthy(quiz.elems[1])
                             /\ quiz.elems[1].type # "dict"
    [] quiz.type = "str"  -> Len(quiz.chunks) > 0
    [] quiz.type = "dict" -> Len(quiz.items) > 0
    [] quiz.type = "null" -> FALSE
    [] OTHER              -> TRUE
PrimaryQ(quiz) ==
  IF quiz.type = "list" /\ Len(quiz.elems) > 0 /\ Truthy(quiz.elems[1])
  THEN quiz.elems[1] ELSE Null
QGet(q, key) == IF q # Null /\ HasKey(q, key) THEN Get(q, key) ELSE Null
\* Lines 216-223.
InsertPayload(title, url, quiz) ==
  LET q == PrimaryQ(quiz)
      options == QGet(q, "options")
  IN  [title         |-> title,
       video_url     |-> url,
       quiz_question |-> QGet(q, "question"),
       quiz_options  |-> IF Truthy(options) THEN Str(Ser(options, JsonPy)) ELSE Null,
       quiz_answer   |-> QGet(q, "answer")]

\* Lines 209-229.
Insert ==
  /\ pc = "insert"
  /\ LET quiz == Get(hf_out, "quiz")
     IN  IF PrimaryRaises(quiz)
         THEN /\ PublishFailed
              /\ UNCHANGED <<insert_res, videos, calls>>
         ELSE /\ calls' = Append(calls, "insert")
              /\ \/ /\ insert_res' \in {"ok", "ok_nodata"}
                    /\ videos' = Append(videos,
                         InsertPayload(Get(hf_out, "title"), video_url, quiz))
                    /\ pc' = "respond" /\ UNCHANGED response
                 \/ \* resp.get("error") is set: insert_error is returned
                    /\ insert_res' = "error" /\ pc' = "respond"
                    /\ UNCHANGED <<videos, response>>
                 \/ \* execute() raises
                    /\ insert_res' = "raised" /\ PublishFailed
                    /\ UNCHANGED videos
  /\ UNCHANGED <<length_seconds, hf_vars, video_vars, upload_res, public_res,
                 signed_res, video_url>>

\* Line 273: up_res.get("db_result") or up_res.get("insert_error").
Meta(ires) ==
  CASE ires = "ok"    -> "db_result"
    [] ires = "error" -> "insert_error"
    [] OTHER          -> "none"

\* Lines 266-273: best-effort removal of audio and video, then the answer.
\* removed = 2: both files went; fewer: os.remove raised part-way.
Respond ==
  /\ pc = "respond"
  /\ \E removed \in 0..2 :
       /\ audio_exists' = (audio_exists /\ removed < 1)
       /\ out_exists' = (out_exists /\ removed < 2)
  /\ pc' = "done"
  /\ response' = [status |-> 200, detail |-> "ok", ok |-> TRUE,
                  video_url |-> video_url, meta |-> Meta(insert_res)]
  /\ UNCHANGED <<length_seconds, hf_vars, audio_dur, probe_res, final_dur,
                 clip_exists, out_dur, primary_res, fallback_res, remove_res,
                 mv_exc, mv_state, pub_vars, calls>>

Next == HFRequest \/ ExtractJson \/ Validate \/ Unpack \/ TTS \/ Probe
          \/ RenderColor \/ RenderMux \/ RenderFallback \/ Finally
          \/ Upload \/ PublicUrl \/ SignedUrlTry \/ SignedUrlExcept
          \/ Insert \/ Respond
Spec == Init /\ [][Next]_vars

\* ------------------------------------------------------------ properties
Called(op) == op \in Range(calls)
Count(op) == Cardinality({i \in 1..Len(calls) : calls[i] = op})
RequiredKeys == {"title", "script", "quiz"}
LacksRequiredKey(v) ==
  v.type # "dict" \/ \E k \in RequiredKeys : ~HasKey(v, k)
\* D rounded to the nearest second, halves up; D in quarters.
Round(q) == CHOOSE r \in 0..(q + 4) : 4 * r - 2 <= q /\ q < 4 * r + 2
StageOf(op) ==
  CASE op = "hf" -> 1
    [] op = "tts" -> 2
    [] op \in {"probe", "render_color", "render_mux", "render_fallback",
               "remove_clip"} -> 3
    [] OTHER -> 4
StageLabels(k) ==
  CASE k = 1 -> {"HuggingFace error", "Could not parse JSON from model output",
                 "Invalid output from model: missing keys", "LLM generation failed"}
    [] k = 2 -> {"TTS failed"}
    [] k = 3 -> {"Video creation failed"}
    [] k = 4 -> {"Upload/DB insert failed"}

TypeOK ==
  /\ pc \in {"hf_request", "extract", "validate", "unpack", "tts", "probe",
             "render_color", "render_mux", "render_fallback", "mv_finally",
             "upload", "public_url", "signed_url_try", "signed_url_except",
             "insert", "respond", "done"}
  /\ length_seconds \in LengthValues
  /\ final_dur \in 0..Max(MaxLen, MaxAudio)
  /\ out_dur \in 0..MaxAudio
  /\ Len(videos) <= 1
  /\ (pc = "done") = (response # NoResponse)

\* C1: the videos insert is attempted only after the storage upload came
\* back without an error; an upload response carrying an error ends the
\* request with the upload failure, no insert, no row and never ok=true.
C1_InsertOnlyAfterUploadOk ==
  /\ Called("insert") => upload_res = "ok"
  /\ upload_res = "error" =>
       /\ pc = "done"
       /\ response = Error(500, "Upload/DB insert failed")
       /\ ~Called("insert") /\ videos = <<>>
C1_Witness ==
  upload_res = "error" /\ pc = "done" /\ ~response.ok /\ Called("upload")

\* C2 as claimed: whenever the upload succeeded and the insert then fails
\* (its response reports an error, or execute() raises), the request
\* answers ok=true with the resolved video_url and the insert error in meta.
C2_InsertFailureNeverAborts ==
  (pc = "done" /\ upload_res = "ok" /\ insert_res \in {"error", "raised"}) =>
     /\ response.ok
     /\ response.video_url = video_url
     /\ response.meta = "insert_error"

\* C3 as claimed: for a text that is prose around a single JSON object, the
\* brace-depth scan selects exactly that object's text.
C3_ScanSelectsEmbeddedObject ==
  (embedded.single /\ pc \notin {"hf_request", "extract"}) =>
     json_text = SubSeq(text.chunks, embedded.first, embedded.last)

\* C4 as claimed: a parsed value lacking one of title, script, quiz ends
\* the request with the 502 'missing keys' error.
C4_MissingKeysIsIncompleteOutput ==
  (pc = "done" /\ data # Unset /\ LacksRequiredKey(data)) =>
     response = Error(502, "Invalid output from model: missing keys")

\* C5 as claimed: with probed audio duration D and guideline G the video
\* make_video produced lasts exactly max(round(D), G).
C5_OutputDurationIsMax ==
  (mv_state = "returned" /\ probe_res = "ok") =>
     out_dur = 4 * Max(Round(audio_dur), length_seconds.n)
\* C5 amended: final_dur, the duration the background clip is rendered
\* with, is max(round-half-up(D), G), so it is never below the guideline
\* and at most half a second below the narration; the muxed output is cut
\* to the shorter of that clip and the narration.
C5_ClipDurationIsMax ==
  (mv_state \in {"running", "returned"} /\ probe_res = "ok") =>
     /\ final_dur = Max(Round(audio_dur), length_seconds.n)
     /\ final_dur >= length_seconds.n
     /\ 4 * final_dur + 2 > audio_dur
     /\ out_exists =>
          /\ out_dur <= 4 * final_dur /\ out_dur <= audio_dur
          /\ out_dur = 4 * final_dur \/ out_dur = audio_dur
C5_Witness ==
  /\ mv_state = "returned" /\ probe_res = "ok" /\ out_exists
  /\ final_dur > length_seconds.n /\ 4 * final_dur > audio_dur

\* C6 as claimed: make_video fails only if the primary render and the
\* fallback render were both attempted and both failed (every failure of
\* the primary render leads to the fallback).
C6_FailsOnlyAfterBothRenders ==
  mv_state = "raised" =>
     /\ primary_res \in {"CalledProcessError", "OSError"}
     /\ fallback_res = "failed"

\* C7 as claimed: on every exit of make_video the intermediate clip no
\* longer exists.
C7_ClipAlwaysDeleted ==
  mv_state \in {"returned", "raised"} => ~clip_exists
\* C7 amended: on every exit of make_video (return or raise) the clip no
\* longer exists unless its removal was attempted and itself failed.
C7_ClipDeletedUnlessRemoveFails ==
  mv_state \in {"returned", "raised"} =>
     /\ clip_exists => remove_res = "failed"
     /\ remove_res = "ok" => ~clip_exists
C7_Witness ==
  /\ mv_state = "raised" /\ mv_exc = "RuntimeError"
  /\ Called("render_mux") /\ remove_res = "ok" /\ ~clip_exists

\* C8: after a successful upload the public URL is asked for first; a
\* signed URL is requested only when that gave no usable URL or raised; a
\* usable public URL is the video_url returned and no signed URL is asked.
C8_PublicFirstSignedAsFallback ==
  /\ Called("public_url") => upload_res = "ok"
  /\ pc \in {"signed_url_try", "signed_url_except", "insert", "respond"} =>
       Called("public_url")
  /\ Called("signed_url") =>
       /\ public_res \in {"none", "raised"}
       /\ Find(calls, "public_url") # 0
       /\ Find(calls, "public_url") < Find(calls, "signed_url")
  /\ public_res = "url" =>
       /\ ~Called("signed_url") /\ video_url = "public"
       /\ response.ok => response.video_url = "public"
C8_Witness ==
  /\ public_res = "none" /\ signed_res = "url" /\ Count("signed_url") = 1
  /\ pc = "done" /\ response.ok /\ response.video_url = "signed"

\* C9 as claimed: the stages run in the order generate, TTS, render,
\* publish, and a failed request carries the label of the stage that
\* failed, no later stage having been started.
C9_StagesInOrderFailuresLabelled ==
  /\ \A i \in 1..Len(calls) : \A j \in i..Len(calls) :
       StageOf(calls[i]) <= StageOf(calls[j])
  /\ (pc = "done" /\ ~response.ok) =>
       response.detail \in StageLabels(StageOf(calls[Len(calls)]))

\* C10 as claimed: the inference call, TTS, upload, public-URL resolution,
\* signed-URL creation and insert are each invoked at most once, and the
\* render is attempted at most twice (primary, then fallback).
C10_NoRetries ==
  /\ \A op \in {"hf", "tts", "upload", "public_url", "signed_url", "insert"} :
       Count(op) <= 1
  /\ Count("render_color") <= 1 /\ Count("render_mux") <= 1
  /\ Count("render_fallback") <= 1

=============================================================================
